---- MODULE Spec2Model ----
(***************************************************************************)
(* Entry insertion of the LDAP-on-PostgreSQL repository.                    *)
(*                                                                         *)
(* Two implementations of Repository.Insert are modelled over the same     *)
(* three tables (ldap_entry, ldap_tree, ldap_member):                       *)
(*   A  src/repo_create.go      (actions A_*,  specification SpecA)         *)
(*   B  src/unnamed/part_000    (actions B_*,  specification SpecB)         *)
(*                                                                         *)
(* The store is PostgreSQL at READ COMMITTED: a statement sees the rows     *)
(* committed when it starts plus the rows of its own transaction; a unique  *)
(* index makes an insert wait for an uncommitted row with the same key and  *)
(* raises duplicate key (23505) when that row commits; a row lock is held   *)
(* until the transaction ends.  Every row carries the transaction that      *)
(* wrote it (tx), Committed once that transaction has committed.            *)
(***************************************************************************)
EXTENDS Integers, Sequences, FiniteSets, TLC

\* ------------------------------------------------------------------ bounds
MaxDepth == 3        \* longest DN, counted in RDNs from the suffix
MaxId == 4           \* last id the ldap_entry sequence hands out
MaxMembers == 2      \* longest member list of an AddEntry
MaxFaults == 1       \* commits the store fails in one run
MaxChain == 4        \* longest DN of a chain built one entry below the other
MaxLen == 205        \* longest member list handed to insertMember in batches

Procs == {"c1", "c2"}      \* concurrent callers of Insert
RDNs == {"a", "b"}         \* RDNs below the suffix
Attrs == {"member", "owner"}

\* --------------------------------------------------------------- DN service
\* A DN is the sequence of its RDNs, suffix first.
Suffix == <<"dc">>
BadDN == <<"#">>           \* a member DN string that does not normalize
Nil == <<>>                \* nil *DN / nil *DBEntryRecord / "" parent_dn_orig

RECURSIVE DNsOfLen(_)
DNsOfLen(n) ==
    IF n = 1 THEN {Suffix}
    ELSE {Append(d, r) : d \in DNsOfLen(n - 1), r \in RDNs}

DNs == UNION {DNsOfLen(n) : n \in 1..MaxDepth}

IsDC(dn) == dn = Suffix
IsRoot(dn) == dn = Suffix
ParentDN(dn) == SubSeq(dn, 1, Len(dn) - 1)
RDNNorm(dn) == dn[Len(dn)]
NormalizeDN(s) == IF s = BadDN THEN Nil ELSE s

RECURSIVE JoinPath(_)
JoinPath(dn) == IF dn = <<>> THEN "" ELSE JoinPath(ParentDN(dn)) \o "/" \o RDNNorm(dn)
\* DN.ParentPath(): "/" for the DC entry, the path of the parent DN otherwise.
ParentPath(dn) == IF Len(dn) <= 1 THEN "/" ELSE JoinPath(ParentDN(dn))

\* ---------------------------------------------------------------- requests
MemberEntries == [AttrNameNorm : Attrs, MemberOfDNNorm : DNsOfLen(2) \cup {BadDN}]

NoDup(s) == \A i, j \in 1..Len(s) : i # j => s[i] # s[j]
MemberLists ==
    {s \in UNION {[1..n -> MemberEntries] : n \in 0..MaxMembers} : NoDup(s)}


\* ------------------------------------------------------------------- state
VARIABLES
    ldap_entry,   \* rows [id, parent_id, rdn_norm, tx]
    ldap_tree,    \* A: rows [id, parent_path, parent_dn_orig, tx]; B: [id, path, tx]
    ldap_member,  \* rows [subject_id, role, object_id, tx]
    nextId,       \* next value of the ldap_entry id sequence
    lock,         \* B: lock[p] = id of the entry row p holds FOR UPDATE, 0 if none
    pc,           \* where each caller is inside Insert
    entry,        \* the *AddEntry of the call
    newID,        \* newID of insertWithTx (0 until the entry row is inserted)
    parent,       \* A: the *DBEntryRecord of findParent; B: snapshot of insertEntry
    ret,          \* what Insert returned: [id, err]
    faults,       \* commits that failed so far
    obs,          \* what happened during the call (read by the properties only)
    impl          \* the implementation of Repository.Insert the server runs

vars == <<ldap_entry, ldap_tree, ldap_member, nextId, lock, pc, entry, newID,
          parent, ret, faults, obs, impl>>

Committed == "committed"
ROOT_ID == 0
NULL == -1

NoRecord == [ID |-> 0, ParentID |-> 0, ParentDNOrig |-> Nil, HasSubordinates |-> "FALSE"]
NoRet == [id |-> 0, err |-> "pending"]
NoObs == [parentExisted |-> FALSE, targetExisted |-> FALSE, stepFailed |-> FALSE,
          memberRan |-> FALSE, unresolved |-> FALSE, allExist |-> FALSE,
          commitFailed |-> FALSE, duplicateKey |-> FALSE, waited |-> FALSE,
          calls |-> <<>>]
NoEntry == [dn |-> Nil, members |-> <<>>]

Init ==
    /\ ldap_entry = {}
    /\ ldap_tree = {}
    /\ ldap_member = {}
    /\ nextId = 1
    /\ lock = [p \in Procs |-> 0]
    /\ pc = [p \in Procs |-> "idle"]
    /\ entry = [p \in Procs |-> NoEntry]
    /\ newID = [p \in Procs |-> 0]
    /\ parent = [p \in Procs |-> NoRecord]
    /\ ret = [p \in Procs |-> NoRet]
    /\ faults = 0
    /\ obs = [p \in Procs |-> NoObs]

\* The server runs repo_create.go (A), part_000 (B), or either of them.
InitA == Init /\ impl = "A"
InitB == Init /\ impl = "B"
InitAB == Init /\ impl \in {"A", "B"}

\* ------------------------------------------------------------------- store
\* Rows a statement of transaction p sees.
Visible(p, table) == {r \in table : r.tx \in {Committed, p}}
CommittedRows(table) == {r \in table : r.tx = Committed}

\* tx.Commit(): the rows of p become visible to everyone.
CommitRows(p, table) ==
    {IF r.tx = p THEN [r EXCEPT !.tx = Committed] ELSE r : r \in table}
\* tx.Rollback(): the rows of p are gone.
RollbackRows(p, table) == {r \in table : r.tx # p}

\* Unique index on ldap_entry (parent_id, rdn_norm).
SameKey(p, parentID, rdn) ==
    {r \in ldap_entry : r.parent_id = parentID /\ r.rdn_norm = rdn /\ r.tx # p}
KeyBlocked(p, parentID, rdn) == \E r \in SameKey(p, parentID, rdn) : r.tx # Committed
KeyDuplicate(p, parentID, rdn) == \E r \in SameKey(p, parentID, rdn) : r.tx = Committed

\* The entry a DN names among `rows` (0 when there is none): the ground truth
\* the properties compare the implementations' lookups with.
RECURSIVE ResolveDN(_, _, _)
ResolveDN(rows, top, dn) ==
    LET up == IF Len(dn) = 1 THEN top ELSE ResolveDN(rows, top, ParentDN(dn))
        hit == {r \in rows : r.parent_id = up /\ r.rdn_norm = RDNNorm(dn)}
    IN IF Len(dn) > 1 /\ up = 0 THEN 0
       ELSE IF hit = {} THEN 0
       ELSE (CHOOSE r \in hit : TRUE).id

\* ------------------------------------------------ shared transaction steps
\* The INSERT INTO ldap_entry ... RETURNING id succeeded: the row is written
\* under transaction p and Scan(&id) stores the new id.
InsertEntryRow(p, parentID, rdn, nextpc) ==
    /\ nextId <= MaxId
    /\ ldap_entry' = ldap_entry \cup
           {[id |-> nextId, parent_id |-> parentID, rdn_norm |-> rdn, tx |-> p]}
    /\ nextId' = nextId + 1
    /\ newID' = [newID EXCEPT ![p] = nextId]
    /\ pc' = [pc EXCEPT ![p] = nextpc]
    /\ UNCHANGED <<ldap_tree, ldap_member, lock, ret, faults, entry, parent>>

\* A step returned err: Insert rolls the transaction back and returns (0, err).
Abort(p, err) ==
    /\ ldap_entry' = RollbackRows(p, ldap_entry)
    /\ ldap_tree' = RollbackRows(p, ldap_tree)
    /\ ldap_member' = RollbackRows(p, ldap_member)
    /\ lock' = [lock EXCEPT ![p] = 0]
    /\ pc' = [pc EXCEPT ![p] = "done"]
    /\ ret' = [ret EXCEPT ![p] = [id |-> 0, err |-> err]]
    /\ parent' = [parent EXCEPT ![p] = NoRecord]
    /\ UNCHANGED <<nextId, newID, entry>>

\* A statement step returned err (no commit was attempted).
Fail(p, err) ==
    /\ Abort(p, err)
    /\ UNCHANGED faults

\* A commit after which the row lock of the transaction stays.
CommitTxKeepingLock(p) ==
    /\ ldap_entry' = CommitRows(p, ldap_entry)
    /\ ldap_tree' = CommitRows(p, ldap_tree)
    /\ ldap_member' = CommitRows(p, ldap_member)
    /\ pc' = [pc EXCEPT ![p] = "done"]
    /\ ret' = [ret EXCEPT ![p] = [id |-> newID[p], err |-> "nil"]]
    /\ parent' = [parent EXCEPT ![p] = NoRecord]
    /\ UNCHANGED <<lock, nextId, newID, entry, faults, obs>>

\* tx.Commit() succeeded.
CommitTx(p) ==
    /\ ldap_entry' = CommitRows(p, ldap_entry)
    /\ ldap_tree' = CommitRows(p, ldap_tree)
    /\ ldap_member' = CommitRows(p, ldap_member)
    /\ lock' = [lock EXCEPT ![p] = 0]
    /\ pc' = [pc EXCEPT ![p] = "done"]
    /\ ret' = [ret EXCEPT ![p] = [id |-> newID[p], err |-> "nil"]]
    /\ parent' = [parent EXCEPT ![p] = NoRecord]
    /\ UNCHANGED <<nextId, newID, entry, faults, obs>>

\* A failed tx.Commit() that left the transaction open.
CommitFailedLeavingTxOpen(p, err) ==
    /\ faults < MaxFaults
    /\ faults' = faults + 1
    /\ pc' = [pc EXCEPT ![p] = "done"]
    /\ ret' = [ret EXCEPT ![p] = [id |-> 0, err |-> err]]
    /\ obs' = [obs EXCEPT ![p].commitFailed = TRUE, ![p].stepFailed = TRUE]
    /\ UNCHANGED <<ldap_entry, ldap_tree, ldap_member, lock, parent, nextId, newID,
                   entry>>

\* tx.Commit() failed: the store discards the transaction.
CommitFailed(p, err) ==
    /\ faults < MaxFaults
    /\ faults' = faults + 1
    /\ Abort(p, err)
    /\ obs' = [obs EXCEPT ![p].commitFailed = TRUE, ![p].stepFailed = TRUE]

\* Callers inside Insert, other than p, that have not drawn their id yet.
AwaitingId(p) == {q \in Procs \ {p} : pc[q] \notin {"idle", "done"} /\ newID[q] = 0}

\* Repository.Insert(entry) is called: tx := r.db.MustBegin().  A call starts
\* only while the id sequence can still serve every call in flight.
BeginWith(p, dn, members) ==
    /\ pc[p] \in {"idle", "done"}
    /\ nextId + Cardinality(AwaitingId(p)) <= MaxId
    /\ pc' = [pc EXCEPT ![p] = "insertWithTx"]
    /\ entry' = [entry EXCEPT ![p] = [dn |-> dn, members |-> members]]
    /\ newID' = [newID EXCEPT ![p] = 0]
    /\ parent' = [parent EXCEPT ![p] = NoRecord]
    /\ ret' = [ret EXCEPT ![p] = NoRet]
    /\ obs' = [obs EXCEPT ![p] = NoObs]
    /\ UNCHANGED <<ldap_entry, ldap_tree, ldap_member, nextId, lock, faults>>

\* An Insert of an entry without member references.
Begin(p, dn) == BeginWith(p, dn, <<>>)

\* ============================================ implementation A: repo_create.go
\* findDCDBEntryRecord: SELECT ... 'TRUE' AS hassubordinates
\*                      FROM ldap_entry e WHERE e.parent_id = ROOT_ID
findDCDBEntryRecord(p) ==
    LET rows == {e \in Visible(p, ldap_entry) : e.parent_id = ROOT_ID}
    IN IF rows = {} THEN NoRecord
       ELSE LET e == CHOOSE e \in rows : TRUE
            IN [ID |-> e.id, ParentID |-> ROOT_ID, ParentDNOrig |-> ParentDN(Suffix),
                HasSubordinates |-> "TRUE"]

\* CASE WHEN e.id IS NULL THEN 'FALSE' ELSE 'TRUE' END AS hassubordinates
hassubordinates(e, t) == IF e.id = NULL THEN "FALSE" ELSE "TRUE"

\* findDBEntryRecord: e joined with the tree row pt of its parent and the
\* parent's entry row pe, left-joined with its own tree row t.
findDBEntryRecord(p, dn) ==
    IF IsDC(dn) THEN findDCDBEntryRecord(p)
    ELSE
    LET parentDN == ParentDN(dn)
        grandParentPath == IF parentDN # Nil THEN ParentPath(parentDN) ELSE "/"
        parentRDNNorm == IF parentDN # Nil THEN RDNNorm(parentDN) ELSE ""
        es == Visible(p, ldap_entry)
        ts == Visible(p, ldap_tree)
        rows == {<<e, pt, pe>> \in es \X ts \X es :
                    /\ pt.id = e.parent_id
                    /\ pt.id = pe.id
                    /\ pt.parent_path = grandParentPath
                    /\ pe.rdn_norm = parentRDNNorm
                    /\ e.rdn_norm = RDNNorm(dn)}
    IN IF rows = {} THEN NoRecord
       ELSE LET row == CHOOSE row \in rows : TRUE
                e == row[1]
                pt == row[2]
                pe == row[3]
                t == {x \in ts : x.id = e.id}
            IN [ID |-> e.id, ParentID |-> e.parent_id,
                ParentDNOrig |-> Append(pt.parent_dn_orig, pe.rdn_norm),
                HasSubordinates |-> hassubordinates(e, t)]

HasChildren(d) == d.HasSubordinates = "TRUE"

\* insertTree(tx, id, parentPath, parentDNOrig)
insertTree(p, id, parentPath, parentDNOrig) ==
    ldap_tree \cup {[id |-> id, parent_path |-> parentPath,
                     parent_dn_orig |-> parentDNOrig, tx |-> p]}

\* insertDCStmt, a conditional insert under ROOT_ID: TRUE when the statement's
\* snapshot already holds the DC entry, so that no row comes back.
insertDCStmtExists(p, rdn) ==
    \E r \in Visible(p, ldap_entry) : r.parent_id = ROOT_ID /\ r.rdn_norm = rdn

\* insertUnderDCStmt, a conditional insert under the DC entry: TRUE when the
\* snapshot holds no DC entry or holds the sibling already (no row comes back).
insertUnderDCStmtExists(p, parentID, rdn) ==
    \/ ~\E e \in Visible(p, ldap_entry) : e.parent_id = ROOT_ID
    \/ \E r \in Visible(p, ldap_entry) : r.parent_id = parentID /\ r.rdn_norm = rdn

\* The server runs repo_create.go and goes on running it.
RunsA == impl = "A" /\ UNCHANGED impl

\* Insert(entry) of an entry without member references.
A_Insert(p) == RunsA /\ \E dn \in DNs : Begin(p, dn)

\* Insert(entry) of an entry that declares member references.
A_InsertWithMembers(p) ==
    RunsA /\ \E dn \in DNs, members \in MemberLists : BeginWith(p, dn, members)

\* insertDCEntry: rows.Next() false is AlreadyExists.
A_insertDCEntry(p) ==
    /\ RunsA
    /\ pc[p] = "insertWithTx"
    /\ IsDC(entry[p].dn)
    /\ LET rdn == RDNNorm(entry[p].dn)
           seen == insertDCStmtExists(p, rdn)
       IN /\ obs' = [obs EXCEPT ![p].targetExisted = seen, ![p].stepFailed = seen,
                                ![p].waited = ~seen /\ KeyBlocked(p, ROOT_ID, rdn)]
          /\ IF seen
             THEN Fail(p, "AlreadyExists")
             ELSE IF KeyBlocked(p, ROOT_ID, rdn)
             THEN /\ pc' = [pc EXCEPT ![p] = "insertDCEntryWait"]
                  /\ UNCHANGED <<ldap_entry, ldap_tree, ldap_member, nextId, lock,
                                 entry, newID, parent, ret, faults>>
             ELSE InsertEntryRow(p, ROOT_ID, rdn, "insertTree")

\* The statement waited in the unique index for the other transaction's row.
\* Queryx returns the duplicate-key error, which insertDCEntry wraps.
A_insertDCEntryWait(p) ==
    /\ RunsA
    /\ pc[p] = "insertDCEntryWait"
    /\ LET rdn == RDNNorm(entry[p].dn)
       IN /\ ~KeyBlocked(p, ROOT_ID, rdn)
          /\ IF KeyDuplicate(p, ROOT_ID, rdn)
             THEN /\ Fail(p, "Internal")
                  /\ obs' = [obs EXCEPT ![p].stepFailed = TRUE,
                                       ![p].duplicateKey = TRUE]
             ELSE /\ InsertEntryRow(p, ROOT_ID, rdn, "insertTree")
                  /\ UNCHANGED obs

\* A DC branch that goes on to insertMember after insertTree.
A_insertTreeDCThenMember(p) ==
    /\ RunsA
    /\ pc[p] = "insertTree"
    /\ ldap_tree' = insertTree(p, newID[p], "/", Nil)
    /\ pc' = [pc EXCEPT ![p] = "insertMember"]
    /\ UNCHANGED <<ldap_entry, ldap_member, nextId, lock, entry, newID, parent,
                   ret, faults, obs>>

\* insertWithTx, DC branch: insertTree(tx, newID, "/", "")
A_insertTreeDC(p) ==
    /\ RunsA
    /\ pc[p] = "insertTree"
    /\ ldap_tree' = insertTree(p, newID[p], "/", Nil)
    /\ pc' = [pc EXCEPT ![p] = "commit"]
    /\ UNCHANGED <<ldap_entry, ldap_member, nextId, lock, entry, newID, parent,
                   ret, faults, obs>>

\* insertWithTx, ordinary branch up to the entry insert: findParent, then the
\* promotion of a parent that has no children yet.
A_findParent(p) ==
    /\ RunsA
    /\ pc[p] = "insertWithTx"
    /\ ~IsDC(entry[p].dn)
    /\ LET dn == entry[p].dn
           rec == findDBEntryRecord(p, ParentDN(dn))
           existed == ResolveDN(Visible(p, ldap_entry), ROOT_ID, ParentDN(dn)) # 0
           target == ResolveDN(CommittedRows(ldap_entry), ROOT_ID, dn) # 0
       IN /\ obs' = [obs EXCEPT ![p].parentExisted = existed,
                                ![p].targetExisted = target,
                                ![p].stepFailed = (rec = NoRecord)]
          /\ IF rec = NoRecord
             THEN Fail(p, "NoSuchObject")
             ELSE /\ parent' = [parent EXCEPT ![p] = rec]
                  /\ ldap_tree' =
                        IF ~HasChildren(rec)
                        THEN LET pp == NormalizeDN(rec.ParentDNOrig)
                             IN insertTree(p, rec.ID, ParentPath(pp), pp)
                        ELSE ldap_tree
                  /\ pc' = [pc EXCEPT ![p] = "insertEntry"]
                  /\ UNCHANGED <<ldap_entry, ldap_member, nextId, lock, entry,
                                 newID, ret, faults>>

\* An insertEntry that wraps the duplicate-key error like any other error.
A_insertEntryWrapsDuplicate(p) ==
    /\ RunsA
    /\ pc[p] = "insertEntry"
    /\ ~IsDC(ParentDN(entry[p].dn))
    /\ LET rdn == RDNNorm(entry[p].dn)
       IN /\ ~KeyBlocked(p, parent[p].ID, rdn)
          /\ IF KeyDuplicate(p, parent[p].ID, rdn)
             THEN /\ Fail(p, "Internal")
                  /\ obs' = [obs EXCEPT ![p].stepFailed = TRUE,
                                       ![p].duplicateKey = TRUE]
             ELSE /\ InsertEntryRow(p, parent[p].ID, rdn, "insertMember")
                  /\ UNCHANGED obs

\* insertEntry: plain INSERT ... RETURNING; 23505 becomes AlreadyExists.
A_insertEntry(p) ==
    /\ RunsA
    /\ pc[p] = "insertEntry"
    /\ ~IsDC(ParentDN(entry[p].dn))
    /\ LET rdn == RDNNorm(entry[p].dn)
       IN /\ ~KeyBlocked(p, parent[p].ID, rdn)
          /\ IF KeyDuplicate(p, parent[p].ID, rdn)
             THEN /\ Fail(p, "AlreadyExists")
                  /\ obs' = [obs EXCEPT ![p].stepFailed = TRUE,
                                       ![p].duplicateKey = TRUE]
             ELSE /\ InsertEntryRow(p, parent[p].ID, rdn, "insertMember")
                  /\ UNCHANGED obs

\* insertUnderDCEntry: no 23505 translation; rows.Next() false is AlreadyExists.
A_insertUnderDCEntry(p) ==
    /\ RunsA
    /\ pc[p] = "insertEntry"
    /\ IsDC(ParentDN(entry[p].dn))
    /\ LET rdn == RDNNorm(entry[p].dn)
       IN IF insertUnderDCStmtExists(p, parent[p].ID, rdn)
          THEN /\ Fail(p, "AlreadyExists")
               /\ obs' = [obs EXCEPT ![p].stepFailed = TRUE]
          ELSE IF KeyBlocked(p, parent[p].ID, rdn)
          THEN /\ pc' = [pc EXCEPT ![p] = "insertUnderDCEntryWait"]
               /\ obs' = [obs EXCEPT ![p].waited = TRUE]
               /\ UNCHANGED <<ldap_entry, ldap_tree, ldap_member, nextId, lock,
                              entry, newID, parent, ret, faults>>
          ELSE /\ InsertEntryRow(p, parent[p].ID, rdn, "insertMember")
               /\ UNCHANGED obs

\* The statement waited in the unique index; the duplicate-key error is
\* wrapped ("Failed to insert entry record"), not translated.
A_insertUnderDCEntryWait(p) ==
    /\ RunsA
    /\ pc[p] = "insertUnderDCEntryWait"
    /\ LET rdn == RDNNorm(entry[p].dn)
       IN /\ ~KeyBlocked(p, parent[p].ID, rdn)
          /\ IF KeyDuplicate(p, parent[p].ID, rdn)
             THEN /\ Fail(p, "Internal")
                  /\ obs' = [obs EXCEPT ![p].stepFailed = TRUE,
                                       ![p].duplicateKey = TRUE]
             ELSE /\ InsertEntryRow(p, parent[p].ID, rdn, "insertMember")
                  /\ UNCHANGED obs

\* ------------------------------------------------------------ members (A)
max == 100

\* getDCDNOrig: id and DN of the DC entry.
getDCDNOrig(p) ==
    LET rows == {e \in Visible(p, ldap_entry) : e.parent_id = ROOT_ID}
    IN IF rows = {} THEN [ID |-> ROOT_ID, DNOrig |-> Suffix]
       ELSE [ID |-> (CHOOSE e \in rows : TRUE).id, DNOrig |-> Suffix]

\* collectNodeNormByParentIDStmt: the tree nodes directly below the DC entry.
collectNodeNormByParentID(p, parentID) ==
    {[ID |-> e.id, DNNorm |-> Append(Suffix, e.rdn_norm)] :
        e \in {x \in Visible(p, ldap_entry) :
                  /\ x.parent_id = parentID
                  /\ \E t \in Visible(p, ldap_tree) : t.id = x.id}}

\* dnIDCache of insertMember: the DC entry first, then every node.
dnIDCache(p) ==
    LET dc == getDCDNOrig(p)
        nodeNorms == collectNodeNormByParentID(p, dc.ID)
    IN [d \in {dc.DNOrig} \cup {n.DNNorm : n \in nodeNorms} |->
           IF \E n \in nodeNorms : n.DNNorm = d
           THEN (CHOOSE n \in nodeNorms : n.DNNorm = d).ID
           ELSE dc.ID]

\* members[start : start+n]
Slice(members, start, n) == SubSeq(members, start + 1, start + n)

\* An insertMember that runs the full slices only.
MemberBatchesWithoutRemainder(members) ==
    LET gcount == Len(members) \div max
    IN [i \in 1..gcount |-> Slice(members, (i - 1) * max, max)]

\* The slices insertMember passes to insertSubMembers, in call order.
MemberBatches(members) ==
    LET gcount == Len(members) \div max
        remain == Len(members) % max
    IN [i \in 1..gcount |-> Slice(members, (i - 1) * max, max)]
       \o (IF remain > 0 THEN <<Slice(members, gcount * max, remain)>> ELSE <<>>)

\* An insertSubMembers that writes one row per reference without comparing
\* the lookup with the references (object 0 where the lookup found nothing).
insertSubMembersUnchecked(p, subjectID, m, cache) ==
    [err |-> "nil",
     rows |-> {[subject_id |-> subjectID, role |-> m[i].AttrNameNorm,
                object_id |-> ResolveDN(Visible(p, ldap_entry), ROOT_ID,
                                        m[i].MemberOfDNNorm),
                tx |-> p] : i \in 1..Len(m)}]

\* insertSubMembers: [err, rows], rows being what the bulk INSERT INTO
\* ldap_member writes.
insertSubMembers(p, subjectID, m, cache) ==
    LET idx == 1..Len(m)
        dn(i) == NormalizeDN(m[i].MemberOfDNNorm)
        bad(i) == dn(i) = Nil \/ ParentDN(dn(i)) \notin DOMAIN cache
        key(i) == <<cache[ParentDN(dn(i))], RDNNorm(dn(i))>>
        \* memberTypeCache[parentID_rdn] = attribute of the last reference with the key
        memberTypeCache(k) ==
            LET last == CHOOSE i \in idx :
                            key(i) = k /\ \A j \in idx : key(j) = k => j <= i
            IN m[last].AttrNameNorm
        \* SELECT id, parent_id, rdn_norm FROM ldap_entry WHERE (..) OR (..)
        rows == {e \in Visible(p, ldap_entry) :
                    \E i \in idx : key(i) = <<e.parent_id, e.rdn_norm>>}
        count == Cardinality(rows)
    IN IF \E i \in idx : bad(i)
       THEN [err |-> "InvalidDNSyntax", rows |-> {}]
       ELSE IF count # Len(m)
       THEN [err |-> "InvalidDNSyntax", rows |-> {}]
       ELSE [err |-> "nil",
             rows |-> {[subject_id |-> subjectID,
                        role |-> memberTypeCache(<<e.parent_id, e.rdn_norm>>),
                        object_id |-> e.id, tx |-> p] : e \in rows}]

\* A reference that cannot be resolved: its DN does not normalize, its parent
\* is not in the cache, or no entry row matches.
Unresolvable(p, ref, cache) ==
    LET dn == NormalizeDN(ref.MemberOfDNNorm)
    IN \/ dn = Nil
       \/ ParentDN(dn) \notin DOMAIN cache
       \/ ~\E e \in Visible(p, ldap_entry) :
              e.parent_id = cache[ParentDN(dn)] /\ e.rdn_norm = RDNNorm(dn)

\* A reference that names an entry committed before the call.
NamesEntry(p, ref) ==
    /\ NormalizeDN(ref.MemberOfDNNorm) # Nil
    /\ ResolveDN(CommittedRows(ldap_entry), ROOT_ID, ref.MemberOfDNNorm) # 0

\* insertMember: members := entry.Member(); the error insertSubMembers
\* returns is dropped (lines 404, 410).  calls records the slices handed to
\* insertSubMembers with their transaction and subject id, in call order.
A_insertMember(p) ==
    /\ RunsA
    /\ pc[p] = "insertMember"
    /\ LET members == entry[p].members
           cache == dnIDCache(p)
           batches == MemberBatches(members)
           res == [b \in 1..Len(batches) |->
                      insertSubMembers(p, newID[p], batches[b], cache)]
       IN /\ IF Len(members) = 0
             THEN /\ pc' = [pc EXCEPT ![p] = "commit"]
                  /\ UNCHANGED <<ldap_member, obs>>
             ELSE /\ ldap_member' =
                        ldap_member \cup UNION {res[b].rows : b \in 1..Len(batches)}
                  /\ obs' = [obs EXCEPT
                        ![p].memberRan = TRUE,
                        ![p].calls = [b \in 1..Len(batches) |->
                                         [tx |-> p, subjectID |-> newID[p],
                                          members |-> batches[b]]],
                        ![p].unresolved =
                            \E i \in 1..Len(members) :
                                Unresolvable(p, members[i], cache),
                        ![p].allExist =
                            \A i \in 1..Len(members) : NamesEntry(p, members[i]),
                        ![p].stepFailed =
                            \E b \in 1..Len(batches) : res[b].err # "nil"]
                  /\ pc' = [pc EXCEPT ![p] = "commit"]
    /\ UNCHANGED <<ldap_entry, ldap_tree, nextId, lock, entry, newID, parent, ret,
                   faults>>

\* Insert: err = tx.Commit(); a failure is returned as it is.
A_Commit(p) ==
    /\ RunsA
    /\ pc[p] = "commit"
    /\ CommitTx(p)

A_CommitFail(p) ==
    /\ RunsA
    /\ pc[p] = "commit"
    /\ CommitFailed(p, "driver error")

NextA ==
    \E p \in Procs :
        \/ A_Insert(p)
        \/ A_insertDCEntry(p)
        \/ A_insertDCEntryWait(p)
        \/ A_insertTreeDC(p)
        \/ A_findParent(p)
        \/ A_insertEntry(p)
        \/ A_insertUnderDCEntry(p)
        \/ A_insertUnderDCEntryWait(p)
        \/ A_insertMember(p)
        \/ A_Commit(p)
        \/ A_CommitFail(p)

SpecA == InitA /\ [][NextA]_vars

\* One caller at a time, entries with member references: no statement waits.
NextAMember ==
    \E p \in {"c1"} :
        \/ A_InsertWithMembers(p)
        \/ A_insertDCEntry(p)
        \/ A_insertTreeDC(p)
        \/ A_findParent(p)
        \/ A_insertEntry(p)
        \/ A_insertUnderDCEntry(p)
        \/ A_insertMember(p)
        \/ A_Commit(p)
        \/ A_CommitFail(p)

SpecAMember == InitA /\ [][NextAMember]_vars

\* One caller building chains of entries, each below the one inserted before.
ChainDNs == UNION {DNsOfLen(n) : n \in 1..MaxChain}

A_InsertChain(p) == RunsA /\ \E dn \in ChainDNs : Begin(p, dn)

NextAChain ==
    \E p \in {"c1"} :
        \/ A_InsertChain(p)
        \/ A_insertDCEntry(p)
        \/ A_insertTreeDC(p)
        \/ A_findParent(p)
        \/ A_insertEntry(p)
        \/ A_insertUnderDCEntry(p)
        \/ A_insertMember(p)
        \/ A_Commit(p)
        \/ A_CommitFail(p)

SpecAChain == InitA /\ [][NextAChain]_vars

\* One caller inserting the DC entry and, below it, an entry that carries a
\* long member list of distinct references.
Reference(i) == [AttrNameNorm |-> "member", MemberOfDNNorm |-> <<"dc", ToString(i)>>]
LongLists == {[i \in 1..n |-> Reference(i)] : n \in 1..MaxLen}

A_InsertLong(p) ==
    /\ RunsA
    /\ \/ Begin(p, Suffix)
       \/ \E members \in LongLists : BeginWith(p, <<"dc", "a">>, members)

NextABatch ==
    \E p \in {"c1"} :
        \/ A_InsertLong(p)
        \/ A_insertDCEntry(p)
        \/ A_insertTreeDC(p)
        \/ A_findParent(p)
        \/ A_insertUnderDCEntry(p)
        \/ A_insertMember(p)
        \/ A_Commit(p)
        \/ A_CommitFail(p)

SpecABatch == InitA /\ [][NextABatch]_vars

\* ======================================= implementation B: unnamed/part_000
\* createFindBasePathByDNSQL: the id of the entry the DN names, 0 for no row.
FindBasePathByDN(p, dn) == ResolveDN(Visible(p, ldap_entry), NULL, dn)

\* SELECT :id, :id as path
RootTreePath(id) == ToString(id)

\* A promotion that forgets the parent's path.
TreePathWithoutParent(parentPath, id) == ToString(id)

\* SELECT :id, p.path || :id as path
TreePath(parentPath, id) == parentPath \o ToString(id)

\* The server runs part_000 and goes on running it.
RunsB == impl = "B" /\ UNCHANGED impl

B_Insert(p) == RunsB /\ \E dn \in DNs : Begin(p, dn)

\* insertRootEntry: INSERT ... SELECT NULL ... WHERE NOT EXISTS (...) RETURNING id
B_insertRootEntry(p) ==
    /\ RunsB
    /\ pc[p] = "insertWithTx"
    /\ IsRoot(entry[p].dn)
    /\ LET rdn == RDNNorm(entry[p].dn)
           seen == \E r \in Visible(p, ldap_entry) :
                       r.parent_id = NULL /\ r.rdn_norm = rdn
       IN /\ obs' = [obs EXCEPT ![p].targetExisted = seen, ![p].stepFailed = seen,
                                ![p].waited = ~seen /\ KeyBlocked(p, NULL, rdn)]
          /\ IF seen
             THEN Fail(p, "AlreadyExists")
             ELSE IF KeyBlocked(p, NULL, rdn)
             THEN /\ pc' = [pc EXCEPT ![p] = "insertRootEntryWait"]
                  /\ UNCHANGED <<ldap_entry, ldap_tree, ldap_member, nextId, lock,
                                 entry, newID, parent, ret, faults>>
             ELSE InsertEntryRow(p, NULL, rdn, "commit")

\* The statement waited in the unique index; Queryx returns the duplicate-key
\* error, which insertRootEntry wraps.
B_insertRootEntryWait(p) ==
    /\ RunsB
    /\ pc[p] = "insertRootEntryWait"
    /\ LET rdn == RDNNorm(entry[p].dn)
       IN /\ ~KeyBlocked(p, NULL, rdn)
          /\ IF KeyDuplicate(p, NULL, rdn)
             THEN /\ Fail(p, "Internal")
                  /\ obs' = [obs EXCEPT ![p].stepFailed = TRUE,
                                       ![p].duplicateKey = TRUE]
             ELSE /\ InsertEntryRow(p, NULL, rdn, "commit")
                  /\ UNCHANGED obs

\* The INSERT of insertEntry once the parent row is locked. `exists` is what
\* NOT EXISTS saw in the statement's snapshot; the unique index sees every
\* committed row.
B_insertLocked(p, parentId, exists, o) ==
    LET rdn == RDNNorm(entry[p].dn)
    IN IF exists
       THEN /\ Fail(p, "AlreadyExists")
            /\ obs' = [o EXCEPT ![p].stepFailed = TRUE]
       ELSE IF KeyDuplicate(p, parentId, rdn)
       THEN /\ Fail(p, "Internal")
            /\ obs' = [o EXCEPT ![p].stepFailed = TRUE, ![p].duplicateKey = TRUE]
       ELSE /\ nextId <= MaxId
            /\ ldap_entry' = ldap_entry \cup
                  {[id |-> nextId, parent_id |-> parentId, rdn_norm |-> rdn, tx |-> p]}
            /\ nextId' = nextId + 1
            /\ newID' = [newID EXCEPT ![p] = nextId]
            /\ lock' = [lock EXCEPT ![p] = parentId]
            /\ parent' = [parent EXCEPT ![p] = [NoRecord EXCEPT !.ID = parentId]]
            /\ pc' = [pc EXCEPT ![p] = "insertTree"]
            /\ obs' = o
            /\ UNCHANGED <<ldap_tree, ldap_member, entry, ret, faults>>

\* insertEntry: the statement starts.  No parent row: no row comes back.  The
\* parent row is locked FOR UPDATE, waiting for a transaction that holds it.
B_insertEntry(p) ==
    /\ RunsB
    /\ pc[p] = "insertWithTx"
    /\ ~IsRoot(entry[p].dn)
    /\ LET dn == entry[p].dn
           parentId == FindBasePathByDN(p, ParentDN(dn))
           exists == \E r \in Visible(p, ldap_entry) :
                         r.parent_id = parentId /\ r.rdn_norm = RDNNorm(dn)
           target == ResolveDN(CommittedRows(ldap_entry), NULL, dn) # 0
           seen == [obs EXCEPT ![p].parentExisted = (parentId # 0),
                               ![p].targetExisted = target]
       IN IF parentId = 0
          THEN /\ Fail(p, "AlreadyExists")
               /\ obs' = [seen EXCEPT ![p].stepFailed = TRUE]
          ELSE IF \E q \in Procs \ {p} : lock[q] = parentId
          THEN /\ pc' = [pc EXCEPT ![p] = "insertEntryWait"]
               /\ parent' = [parent EXCEPT ![p] =
                     [NoRecord EXCEPT !.ID = parentId,
                                      !.HasSubordinates = IF exists THEN "TRUE" ELSE "FALSE"]]
               /\ obs' = [seen EXCEPT ![p].waited = TRUE]
               /\ UNCHANGED <<ldap_entry, ldap_tree, ldap_member, nextId, lock,
                              entry, newID, ret, faults>>
          ELSE B_insertLocked(p, parentId, exists, seen)

\* The lock on the parent row is granted.
B_insertEntryWait(p) ==
    /\ RunsB
    /\ pc[p] = "insertEntryWait"
    /\ ~\E q \in Procs \ {p} : lock[q] = parent[p].ID
    /\ B_insertLocked(p, parent[p].ID, parent[p].HasSubordinates = "TRUE", obs)

\* insertTree(tx, parentId, entry.ParentDN().IsRoot())
B_insertTree(p) ==
    /\ RunsB
    /\ pc[p] = "insertTree"
    /\ LET id == parent[p].ID
           isRoot == IsRoot(ParentDN(entry[p].dn))
           ts == Visible(p, ldap_tree)
           es == Visible(p, ldap_entry)
           exists == \E t \in ts : t.id = id
           ps == {t \in ts : \E e \in es : e.id = id /\ e.parent_id = t.id}
       IN ldap_tree' =
             IF exists THEN ldap_tree
             ELSE IF isRoot
             THEN ldap_tree \cup {[id |-> id, path |-> RootTreePath(id), tx |-> p]}
             ELSE ldap_tree \cup
                     {[id |-> id, path |-> TreePath(t.path, id), tx |-> p] : t \in ps}
    /\ pc' = [pc EXCEPT ![p] = "commit"]
    /\ UNCHANGED <<ldap_entry, ldap_member, nextId, lock, entry, newID, parent,
                   ret, faults, obs>>

\* insertWithTx: err = tx.Commit(); on failure rollback(tx), NewUnavailable().
B_Commit(p) ==
    /\ RunsB
    /\ pc[p] = "commit"
    /\ CommitTx(p)

B_CommitFail(p) ==
    /\ RunsB
    /\ pc[p] = "commit"
    /\ CommitFailed(p, "Unavailable")

NextB ==
    \E p \in Procs :
        \/ B_Insert(p)
        \/ B_insertRootEntry(p)
        \/ B_insertRootEntryWait(p)
        \/ B_insertEntry(p)
        \/ B_insertEntryWait(p)
        \/ B_insertTree(p)
        \/ B_Commit(p)
        \/ B_CommitFail(p)

SpecB == InitB /\ [][NextB]_vars

\* ===================================================== both implementations
\* The server runs one of the two implementations for the whole run.
NextAB == NextA \/ NextB

SpecAB == InitAB /\ [][NextAB]_vars

\* The steps of caller p inside Insert (everything but the call itself).
Step(p) ==
    \/ A_insertDCEntry(p)
    \/ A_insertDCEntryWait(p)
    \/ A_insertTreeDC(p)
    \/ A_findParent(p)
    \/ A_insertEntry(p)
    \/ A_insertUnderDCEntry(p)
    \/ A_insertUnderDCEntryWait(p)
    \/ A_insertMember(p)
    \/ A_Commit(p)
    \/ A_CommitFail(p)
    \/ B_insertRootEntry(p)
    \/ B_insertRootEntryWait(p)
    \/ B_insertEntry(p)
    \/ B_insertEntryWait(p)
    \/ B_insertTree(p)
    \/ B_Commit(p)
    \/ B_CommitFail(p)

\* Every caller inside Insert keeps running, and a statement that waits for a
\* row lock or a conflicting insert goes on once the store lets it (the store
\* queues the waiters of a lock).
FairSpecAB == SpecAB /\ \A p \in Procs : SF_vars(Step(p))

\* ============================================================== properties
Done(p) == pc[p] = "done"

EntryRows == CommittedRows(ldap_entry)
TreeRows == CommittedRows(ldap_tree)
MemberRows == CommittedRows(ldap_member)

\* Committed entry rows with the (parent_id, rdn_norm) the DN stands for.
RowsNamed(top, dn) ==
    LET up == IF Len(dn) = 1 THEN top ELSE ResolveDN(EntryRows, top, ParentDN(dn))
    IN {r \in EntryRows : r.parent_id = up /\ r.rdn_norm = RDNNorm(dn)}

\* Nothing the call of p wrote is in the tables.
WroteNothing(p) ==
    /\ \A r \in ldap_entry \cup ldap_tree \cup ldap_member : r.tx # p
    /\ newID[p] # 0 =>
          /\ \A r \in ldap_entry : r.id # newID[p]
          /\ \A r \in ldap_tree : r.id # newID[p]
          /\ \A r \in ldap_member : r.subject_id # newID[p]

\* C1: of the concurrent Insert calls for one (existing parent, rdn_norm) that
\* is not in the table yet, exactly one returns a new id, the others return
\* AlreadyExists, and one committed row has that key afterwards (checked on
\* implementation A, which includes the insert-under-DC path).
C1_SiblingUniquenessUnderRace ==
    \A p, q \in Procs :
        ( /\ p # q
          /\ Done(p) /\ Done(q)
          /\ entry[p].dn = entry[q].dn
          /\ ~IsDC(entry[p].dn)
          /\ obs[p].parentExisted /\ obs[q].parentExisted
          /\ ~obs[p].targetExisted /\ ~obs[q].targetExisted
          /\ ~obs[p].commitFailed /\ ~obs[q].commitFailed )
        => /\ \/ ret[p].id # 0 /\ ret[p].err = "nil" /\ ret[q] = [id |-> 0, err |-> "AlreadyExists"]
              \/ ret[q].id # 0 /\ ret[q].err = "nil" /\ ret[p] = [id |-> 0, err |-> "AlreadyExists"]
           /\ Cardinality(RowsNamed(ROOT_ID, entry[p].dn)) = 1

\* C2: an Insert of a non-root entry whose parent DN names no entry returns
\* NoSuchObject and leaves no row of its own (checked on implementation B).
C2_MissingParentNoSuchObject ==
    \A p \in Procs :
        (Done(p) /\ ~IsRoot(entry[p].dn) /\ ~obs[p].parentExisted)
        => /\ ret[p] = [id |-> 0, err |-> "NoSuchObject"]
           /\ WroteNothing(p)

\* C3: an Insert with a member reference that cannot be resolved returns
\* InvalidDNSyntax, no membership row of the subject exists afterwards and the
\* entry is not committed.
C3_UnresolvedMemberFailsInsert ==
    \A p \in Procs :
        (Done(p) /\ obs[p].memberRan /\ obs[p].unresolved)
        => /\ ret[p] = [id |-> 0, err |-> "InvalidDNSyntax"]
           /\ \A r \in ldap_member : r.subject_id # newID[p]
           /\ \A r \in EntryRows : r.id # newID[p]

\* The membership rows the references of p's entry stand for.
ExpectedMemberRows(p) ==
    {[subject_id |-> newID[p], role |-> entry[p].members[i].AttrNameNorm,
      object_id |-> ResolveDN(EntryRows, ROOT_ID, entry[p].members[i].MemberOfDNNorm),
      tx |-> Committed] : i \in 1..Len(entry[p].members)}

\* C4: a successful Insert of a non-DC entry with N member references that all
\* name existing entries commits exactly N membership rows (new id, the
\* reference's attribute name, the id of the referenced entry).
C4_AllMembersAttached ==
    \A p \in Procs :
        ( /\ Done(p) /\ ret[p].err = "nil"
          /\ ~IsDC(entry[p].dn)
          /\ obs[p].memberRan /\ obs[p].allExist )
        => LET rows == {r \in MemberRows : r.subject_id = newID[p]}
           IN /\ rows = ExpectedMemberRows(p)
              /\ Cardinality(rows) = Len(entry[p].members)

\* C5: at most one committed entry row has parent_id NULL, and a root Insert
\* that lost to a committed root returns AlreadyExists (checked on
\* implementation B).
C5_RootSingularity ==
    /\ Cardinality({r \in EntryRows : r.parent_id = NULL}) <= 1
    /\ \A p \in Procs :
          ( /\ Done(p) /\ IsRoot(entry[p].dn)
            /\ ret[p].id = 0 /\ ~obs[p].commitFailed
            /\ \E r \in EntryRows : r.parent_id = NULL )
          => /\ ret[p].err = "AlreadyExists"
             /\ WroteNothing(p)

\* C6: Insert is atomic: when a step failed the call returns an error and
\* none of its rows is committed; when it returns a new id all its rows are.
C6_InsertAtomic ==
    \A p \in Procs :
        Done(p) =>
           /\ obs[p].stepFailed => (ret[p].err # "nil" /\ ret[p].id = 0)
           /\ ret[p].err # "nil" => WroteNothing(p)
           /\ ret[p].err = "nil" =>
                 /\ ret[p].id = newID[p]
                 /\ \E r \in EntryRows : r.id = newID[p]
                 /\ \A r \in ldap_entry \cup ldap_tree \cup ldap_member : r.tx # p

\* C7: when the commit fails after every step succeeded, Insert returns
\* Unavailable and no id (checked on implementation A).
C7_CommitFailureIsUnavailable ==
    \A p \in Procs :
        (Done(p) /\ obs[p].commitFailed) => ret[p] = [id |-> 0, err |-> "Unavailable"]

\* C8: a committed non-root entry with at least one committed child has
\* exactly one tree row (checked on implementation A).
C8_LazyPromotionOnce ==
    \A e \in EntryRows :
        (e.parent_id # ROOT_ID /\ \E c \in EntryRows : c.parent_id = e.id)
        => Cardinality({t \in TreeRows : t.id = e.id}) = 1

\* C9: in implementation B every committed tree row belongs to a committed
\* entry and is the only one of that entry; the root's path is its own id; a
\* non-root entry's path is the path of its parent's tree row, which exists,
\* followed by the entry's id.
C9_PathCorrectness ==
    \A t \in TreeRows :
        /\ Cardinality({x \in TreeRows : x.id = t.id}) = 1
        /\ \E e \in EntryRows :
              /\ e.id = t.id
              /\ IF e.parent_id = NULL
                 THEN t.path = ToString(e.id)
                 ELSE \E pt \in TreeRows :
                         /\ pt.id = e.parent_id
                         /\ t.path = pt.path \o ToString(e.id)

\* A non-root entry has been promoted and committed.
C9_PromotedNonRoot ==
    \E t \in TreeRows : \E e \in EntryRows : e.id = t.id /\ e.parent_id # NULL

\* C10: a committed entry has a tree row exactly when it is the root/DC entry
\* or has a committed child (checked on implementation A).
C10_TreeRowIffRootOrParent ==
    \A e \in EntryRows :
        (\E t \in TreeRows : t.id = e.id)
        <=> (e.parent_id = ROOT_ID \/ \E c \in EntryRows : c.parent_id = e.id)

\* C11: an Insert whose (parent, rdn_norm) pair is in the committed state when
\* the call looks at the store returns AlreadyExists, and the step in which it
\* returns leaves every committed entry, tree and membership row as it was and
\* no row of the call behind (both implementations).
C11_DuplicateInsertChangesNothing ==
    [][\A p \in Procs :
          (pc[p] # "done" /\ pc'[p] = "done" /\ obs'[p].targetExisted)
          => /\ ret'[p] = [id |-> 0, err |-> "AlreadyExists"]
             /\ CommittedRows(ldap_entry') = CommittedRows(ldap_entry)
             /\ CommittedRows(ldap_tree') = CommittedRows(ldap_tree)
             /\ CommittedRows(ldap_member') = CommittedRows(ldap_member)
             /\ \A r \in ldap_entry' \cup ldap_tree' \cup ldap_member' : r.tx # p]_vars

\* An Insert of an entry two levels below the root found its own
\* (parent, rdn_norm) committed and was rejected.
C11_DuplicateRejected ==
    \E p \in Procs :
        /\ Done(p) /\ obs[p].targetExisted
        /\ Len(entry[p].dn) = 3
        /\ ret[p].err = "AlreadyExists"

\* C12: whenever the store rejects the entry insert with duplicate key for
\* (parent_id, rdn_norm) of an entry below the DC entry, Insert returns
\* AlreadyExists, on the ordinary insert and on the insert-under-DC path
\* (checked on implementation A).
C12_DuplicateKeyIsAlreadyExists ==
    \A p \in Procs :
        (Done(p) /\ ~IsDC(entry[p].dn) /\ obs[p].duplicateKey)
        => ret[p] = [id |-> 0, err |-> "AlreadyExists"]

\* C13: a transaction that has inserted an entry whose parent is below the
\* root/DC entry holds the lock on the parent's entry row until it commits or
\* rolls back (checked on implementation A).
C13_ParentLockedUntilTxEnds ==
    \A p \in Procs :
        ( /\ pc[p] \notin {"idle", "done"}
          /\ newID[p] # 0
          /\ Len(entry[p].dn) >= 3 )
        => /\ lock[p] # 0
           /\ \E e \in ldap_entry : e.id = newID[p] /\ e.parent_id = lock[p]

\* C14: a committed root/DC entry has exactly one tree row, whose path is the
\* entry's own id in part_000 and whose parent_path is "/" in repo_create.go
\* (checked on implementation B).
C14_RootTreeRowAfterCommit ==
    \A e \in EntryRows :
        e.parent_id \in {NULL, ROOT_ID} =>
            /\ Cardinality({t \in TreeRows : t.id = e.id}) = 1
            /\ \A t \in TreeRows :
                  t.id = e.id =>
                     IF impl = "B" THEN t.path = ToString(e.id) ELSE t.parent_path = "/"

\* C17: in repo_create.go a sequential Insert whose parent entry exists in the
\* committed state and whose rdn_norm is unused below it returns a new id, at
\* every depth of a chain built from the DC entry.
C17_ChainInsertSucceeds ==
    \A p \in Procs :
        ( /\ Done(p) /\ ~IsDC(entry[p].dn)
          /\ obs[p].parentExisted /\ ~obs[p].targetExisted
          /\ ~obs[p].commitFailed )
        => ret[p].err = "nil" /\ ret[p].id # 0

\* The member lists of the calls of insertSubMembers, one after the other.
RECURSIVE ConcatCalls(_)
ConcatCalls(calls) ==
    IF calls = <<>> THEN <<>>
    ELSE ConcatCalls(SubSeq(calls, 1, Len(calls) - 1)) \o calls[Len(calls)].members

\* C15: for a member list of length n >= 1 insertMember calls insertSubMembers
\* on consecutive slices that partition the list: every slice has 1 to 100
\* elements, every slice but the last has exactly 100, the slices in call
\* order make up the list, and every call gets the transaction and the subject
\* id of the Insert.
C15_BatchesPartitionMembers ==
    \A p \in Procs :
        obs[p].memberRan =>
            LET calls == obs[p].calls
            IN /\ Len(entry[p].members) >= 1
               /\ \A b \in 1..Len(calls) :
                     /\ Len(calls[b].members) \in 1..max
                     /\ calls[b].tx = p
                     /\ calls[b].subjectID = newID[p]
               /\ \A b \in 1..(Len(calls) - 1) : Len(calls[b].members) = max
               /\ ConcatCalls(calls) = entry[p].members

\* insertMember made two calls with a full slice and one with the rest.
C15_TwoFullSlicesAndRest ==
    \E p \in Procs :
        /\ obs[p].memberRan
        /\ Len(obs[p].calls) = 3
        /\ Len(obs[p].calls[3].members) < max

\* C16: every membership row has as subject the entry row written by the
\* same Insert, committed with it, and as object an entry row the lookup of
\* one of the call's references returned; a committed membership row has a
\* committed subject and a committed object.
C16_MemberRowsReferenceEntries ==
    \A r \in ldap_member :
        IF r.tx = Committed
        THEN /\ \E e \in EntryRows : e.id = r.subject_id
             /\ \E e \in EntryRows : e.id = r.object_id
        ELSE /\ r.subject_id = newID[r.tx]
             /\ \E e \in ldap_entry : e.id = r.subject_id /\ e.tx = r.tx
             /\ \E e \in Visible(r.tx, ldap_entry) :
                   /\ e.id = r.object_id
                   /\ \E i \in 1..Len(entry[r.tx].members) :
                         /\ entry[r.tx].members[i].AttrNameNorm = r.role
                         /\ ResolveDN(Visible(r.tx, ldap_entry), ROOT_ID,
                                      entry[r.tx].members[i].MemberOfDNNorm) = e.id

\* A membership row has been committed.
C16_MemberRowCommitted == \E r \in MemberRows : r.object_id # r.subject_id

\* C18: a caller that is not inside Insert has no open transaction: none of
\* its rows is uncommitted and it holds no row lock, whether the call
\* succeeded, a step failed or the commit failed (both implementations).
C18_TxEndedOnReturn ==
    \A p \in Procs :
        pc[p] \in {"idle", "done"} =>
            /\ lock[p] = 0
            /\ \A r \in ldap_entry \cup ldap_tree \cup ldap_member : r.tx # p
            /\ Done(p) => ret[p].err # "pending"

\* An Insert that had written its entry row returned after its commit failed.
C18_ReturnedAfterCommitFailed ==
    \E p \in Procs : Done(p) /\ obs[p].commitFailed /\ newID[p] # 0

\* C19: under fair scheduling every Insert call returns, with a new id or an
\* error, also when it has to wait for a parent-row lock or for a conflicting
\* uncommitted insert of another call (both implementations).
C19_EveryInsertReturns ==
    \A p \in Procs :
        (pc[p] \notin {"idle", "done"}) ~> (Done(p) /\ ret[p].err # "pending")

\* An Insert of part_000 that waited for the lock on its parent's row returned.
C19_ReturnedAfterWaiting ==
    \E p \in Procs :
        impl = "B" /\ Done(p) /\ obs[p].waited /\ ~IsRoot(entry[p].dn)

\* C20: an Insert of the DC entry in repo_create.go never runs insertMember:
\* the call writes the DC entry row and its tree row and nothing else, and a
\* successful call returns the new id and leaves no membership row of the
\* DC entry, whatever member references the entry declares.
C20_DCInsertWritesNoMember ==
    \A p \in Procs :
        (pc[p] # "idle" /\ IsDC(entry[p].dn)) =>
            /\ ~obs[p].memberRan
            /\ \A r \in ldap_entry \cup ldap_tree : r.tx = p => r.id = newID[p]
            /\ \A r \in ldap_member : r.tx # p
            /\ (Done(p) /\ ret[p].err = "nil") =>
                  /\ ret[p].id = newID[p] /\ newID[p] # 0
                  /\ Cardinality({e \in EntryRows : e.id = newID[p]}) = 1
                  /\ Cardinality({t \in TreeRows : t.id = newID[p]}) = 1
                  /\ \A r \in ldap_member : r.subject_id # newID[p]

\* The DC entry was inserted although it declared member references.
C20_DCWithMembersInserted ==
    \E p \in Procs :
        /\ Done(p) /\ IsDC(entry[p].dn) /\ ret[p].err = "nil"
        /\ Len(entry[p].members) >= 1

====
